---- MODULE Spec2Model ----
(***************************************************************************)
(* Model of the OPSWAT assistant API: the in-memory ThreadManager shared   *)
(* by the request handlers of app_updated.py, and the turn pipeline of     *)
(* services_updated.py (get_assistant_response, _create_and_poll_run).     *)
(*                                                                         *)
(* Two groups of variables:                                                *)
(*   - the thread store and the request workers (SpecStore, SpecStoreSeq), *)
(*   - one turn of get_assistant_response against the backend (SpecTurn).  *)
(***************************************************************************)
EXTENDS Integers, Sequences, FiniteSets, TLC

\* ------------------------------------------------------------------------
\* Values
\* ------------------------------------------------------------------------

\* Python's None.
None == "None"

\* Mutant: every value is falsy.
Truthy_never(x) == FALSE

\* Python truthiness of an Optional[str]: None and "" are falsy.
Truthy(x) == x \notin {None, ""}

\* ------------------------------------------------------------------------
\* Thread store: bounds and value sets
\* ------------------------------------------------------------------------

\* Number of backend conversations the backend hands out in a run of the model.
MaxThreads == 3

AllThreadIds == <<"thread_1", "thread_2", "thread_3", "thread_4", "thread_5">>

\* Identifiers returned by client.beta.threads.create(): fresh, never empty.
ThreadIds == {AllThreadIds[i] : i \in 1..MaxThreads}

Users == {"u1", "u2"}

\* Request-serving threads of the Flask application.
Workers == {"w1", "w2"}

\* thread_id values a /chat request can carry (ChatRequest.thread_id).
ChatThreadArgs == {None, "", "thread_x"}

\* thread_id values delete_thread can be called with (Optional[str]).
DeleteThreadArgs == {None, ""} \cup ThreadIds

NoRequest == [op |-> "none", user_id |-> None, thread_id |-> None]
NoResponse == [code |-> 0, deleted |-> FALSE, thread_id |-> None]

VARIABLES
    threads,      \* ThreadManager.threads: user_id -> thread id, None when absent
    nextThread,   \* number of conversations created on the backend so far
    convs,        \* history: conversations created per user since the user's
                  \* mapping was last removed
    wpc,          \* per worker: position in the request handler
    wreq,         \* per worker: the request being served
    wtid,         \* per worker: local thread_id / thread.id
    wresp         \* per worker: the last HTTP response produced

storeVars == <<threads, nextThread, convs, wpc, wreq, wtid, wresp>>

\* ------------------------------------------------------------------------
\* ThreadManager
\* ------------------------------------------------------------------------

\* Mutant: the membership test never finds the user.
HasThread_never(ths, user_id) == FALSE

\* `user_id in self.threads`
HasThread(ths, user_id) == ths[user_id] # None

\* `self.threads[user_id] = thread.id`
StoreThread(ths, user_id, id) == [ths EXCEPT ![user_id] = id]

\* Mutant: delete_thread without the test of lines 218-219.
delete_thread_unchecked(ths, user_id, thread_id) ==
    IF HasThread(ths, user_id) /\ Truthy(thread_id) /\ ths[user_id] # thread_id
    THEN [ret |-> FALSE, threads |-> ths]
    ELSE [ret |-> TRUE, threads |-> [ths EXCEPT ![user_id] = None]]

\* ThreadManager.delete_thread: the value returned and the table afterwards.
\* Its body makes no call and no blocking operation, so it runs as one step.
delete_thread(ths, user_id, thread_id) ==
    IF ~HasThread(ths, user_id)
    THEN [ret |-> FALSE, threads |-> ths]
    ELSE IF Truthy(thread_id) /\ ths[user_id] # thread_id
    THEN [ret |-> FALSE, threads |-> ths]
    ELSE [ret |-> TRUE, threads |-> [ths EXCEPT ![user_id] = None]]

\* ------------------------------------------------------------------------
\* Texts
\*
\* Every test the pipeline makes on a text is a substring test (`k in t`).  A
\* text is modelled by the set of phrases written in it; a phrase holds the
\* keywords that are substrings of it (InPhrase), and _normalize lower-cases.
\* ------------------------------------------------------------------------

\* str.lower() on the phrases that are written with capitals.
Lower(p) ==
    CASE p = "## Answer" -> "## answer"
      [] p = "## Steps / Example" -> "## steps / example"
      [] p = "## Notes (optional)" -> "## notes (optional)"
      [] p = "## Sources" -> "## sources"
      [] p = "MetaDefender Core" -> "metadefender core"
      [] p = "MetaDefender Kiosk" -> "metadefender kiosk"
      [] p = "MetaDefender ICAP" -> "metadefender icap"
      [] p = "MetaDefender Cloud" -> "metadefender cloud"
      [] p = "OESIS" -> "oesis"
      [] p = "Kiosk" -> "kiosk"
      [] p = "Core" -> "core"
      [] p = "Python" -> "python"
      [] OTHER -> p

\* The keywords of the tables that occur inside a (lower-case) phrase.
InPhrase(p) ==
    {p} \cup
    CASE p = "metadefender core" -> {"core"}
      [] p = "md core" -> {"core"}
      [] p = "metadefender kiosk" -> {"kiosk"}
      [] p = "metadefender icap" -> {"icap"}
      [] p = "metadefender cloud" -> {"cloud"}
      [] p = "md cloud" -> {"cloud"}
      [] p = "endpoint security" -> {"endpoint"}
      [] p = "opwat endpoint" -> {"endpoint"}
      [] p = "implementation" -> {"implement"}
      [] p = "values.yaml" -> {"yaml"}
      [] p = "javascript" -> {"java"}
      [] p = "curl" -> {"url"}
      [] p = "api key" -> {"api"}
      [] p = "status api" -> {"api"}
      [] p = "full path" -> {"path"}
      [] p = "## steps / example" -> {"example"}
      [] OTHER -> {}

\* str.strip() on a text: the phrase " " stands for blanks around the text.
StripText(text) == text \ {" "}

\* _normalize(text): strip().lower().
_normalize(text) == {Lower(p) : p \in StripText(text)}

\* `k in t` on a normalized text.
Contains(t, k) == \E p \in t : k \in InPhrase(p)

\* `h in text` on the raw text (case-sensitive, used for the headings).
ContainsRaw(text, h) == h \in text

_PRODUCT_KEYWORDS ==
    [p \in {"MetaDefender Core", "MetaDefender Kiosk", "MetaDefender ICAP",
            "MetaDefender Cloud", "OESIS"} |->
        CASE p = "MetaDefender Core" -> {"metadefender core", "md core", "core"}
          [] p = "MetaDefender Kiosk" -> {"metadefender kiosk", "kiosk"}
          [] p = "MetaDefender ICAP" -> {"metadefender icap", "icap"}
          [] p = "MetaDefender Cloud" -> {"metadefender cloud", "md cloud", "cloud"}
          [] p = "OESIS" -> {"oesis", "endpoint security", "opwat endpoint",
                             "device security"}]

_CODE_HINTS ==
    {"code", "snippet", "example", "sample", "implement", "implementation", "sdk",
     "curl", "http", "endpoint", "api", "json", "yaml", "values.yaml", "dockerfile",
     "python", "c#", "csharp", "java", "javascript", "node", "dotnet", "powershell"}

_PRIVATE_HINTS ==
    {"bypass", "exploit", "crack", "pirate", "steal", "leak", "private key", "api key",
     "password", "credential", "disable security", "evade", "backdoor"}

_CONTEXT_HINTS ==
    {"based on our chat", "as we discussed", "earlier you said", "in this conversation",
     "previous message", "last time"}

_EXACT_FACT_HINTS ==
    {"exact", "full path", "path", "endpoint", "url", "health", "status api", "port",
     "flag", "parameter name", "config file location", "values.yaml"}

_REQUIRED_HEADINGS == {"## Answer", "## Steps / Example", "## Sources"}

\* detect_products(text)
detect_products(text) ==
    LET t == _normalize(text) IN
    {product \in DOMAIN _PRODUCT_KEYWORDS :
        \E k \in _PRODUCT_KEYWORDS[product] : Contains(t, k)}

\* Mutant: the blank hint is not stripped.
Strip_kept(s) == s

\* language_hint.strip(): the hints of the model carry no surrounding blanks,
\* except the all-blank hint " ".
Strip(s) == IF s = " " THEN "" ELSE s

\* Mutant: the context phrases are tested before the private phrases.
categorize_intent_context_first(user_message, product_hint, language_hint) ==
    LET t == _normalize(user_message) IN
    IF \E h \in _CONTEXT_HINTS : Contains(t, h) THEN "CONTEXT"
    ELSE IF \E h \in _PRIVATE_HINTS : Contains(t, h) THEN "PRIVATE"
    ELSE IF Truthy(language_hint) /\ Truthy(Strip(language_hint)) THEN "CODE"
    ELSE IF \E h \in _CODE_HINTS : Contains(t, h) THEN "CODE"
    ELSE "KNOWLEDGE"

\* Mutant: the language hint and the code keywords are tested before the
\* context phrases.
categorize_intent_code_first(user_message, product_hint, language_hint) ==
    LET t == _normalize(user_message) IN
    IF \E h \in _PRIVATE_HINTS : Contains(t, h) THEN "PRIVATE"
    ELSE IF Truthy(language_hint) /\ Truthy(Strip(language_hint)) THEN "CODE"
    ELSE IF \E h \in _CODE_HINTS : Contains(t, h) THEN "CODE"
    ELSE IF \E h \in _CONTEXT_HINTS : Contains(t, h) THEN "CONTEXT"
    ELSE "KNOWLEDGE"

\* categorize_intent(user_message, product_hint, language_hint)
categorize_intent(user_message, product_hint, language_hint) ==
    LET t == _normalize(user_message) IN
    IF \E h \in _PRIVATE_HINTS : Contains(t, h) THEN "PRIVATE"
    ELSE IF \E h \in _CONTEXT_HINTS : Contains(t, h) THEN "CONTEXT"
    ELSE IF Truthy(language_hint) /\ Truthy(Strip(language_hint)) THEN "CODE"
    ELSE IF \E h \in _CODE_HINTS : Contains(t, h) THEN "CODE"
    ELSE "KNOWLEDGE"

\* _has_required_markdown_structure(text); the empty text is falsy.
_has_required_markdown_structure(text) ==
    IF text = {} THEN FALSE
    ELSE \A h \in _REQUIRED_HEADINGS : ContainsRaw(text, h)

\* Mutant: a question naming no product is not exempted.
_enforce_product_scope_strict(question, answer) ==
    detect_products(answer) \subseteq detect_products(question)

\* _enforce_product_scope(question, answer)
_enforce_product_scope(question, answer) ==
    LET q_prod == detect_products(question)
        a_prod == detect_products(answer)
    IN  IF q_prod = {} THEN TRUE ELSE a_prod \subseteq q_prod

\* needs_exact_fact(user_message)
needs_exact_fact(user_message) ==
    LET t == _normalize(user_message) IN \E h \in _EXACT_FACT_HINTS : Contains(t, h)

\* A section of the wrapped message: its kind, the text it carries and the
\* items it lists.  NoSection is the empty string of an absent section.
Section(kind, text, items) == [kind |-> kind, text |-> text, items |-> items]
NoSection == Section("", {}, <<>>)

Item(label, value) == [label |-> label, value |-> value]

\* The hints of the code-assistance block without the placeholder of an
\* empty hint list.
hint_block_no_placeholder(product_hint, language_hint, task_hint) ==
    (IF Truthy(product_hint) THEN <<Item("Product", product_hint)>> ELSE <<>>)
    \o (IF Truthy(language_hint) THEN <<Item("Language", language_hint)>> ELSE <<>>)
    \o (IF Truthy(task_hint) THEN <<Item("Task", task_hint)>> ELSE <<>>)

\* The four section headings the output format mandates.
MandatedHeadings ==
    {"## Answer", "## Steps / Example", "## Notes (optional)", "## Sources"}

\* The sections of the given kind in a message.
SectionsOf(w, kind) == {w[k] : k \in {j \in DOMAIN w : w[j].kind = kind}}

\* Lines 155-162: the hints of the code-assistance block.
hint_block(product_hint, language_hint, task_hint) ==
    LET hints ==
            (IF Truthy(product_hint) THEN <<Item("Product", product_hint)>> ELSE <<>>)
            \o (IF Truthy(language_hint) THEN <<Item("Language", language_hint)>> ELSE <<>>)
            \o (IF Truthy(task_hint) THEN <<Item("Task", task_hint)>> ELSE <<>>)
    IN  IF hints # <<>> THEN hints ELSE <<Item("(no extra hints provided)", None)>>

\* Lines 170-176: the output-structure directive.
format_line ==
    Section("format", {},
            <<Item("## Answer", None), Item("## Steps / Example", None),
              Item("## Notes (optional)", None), Item("## Sources", None)>>)

\* build_wrapped_user_message(user_message, product_hint, language_hint,
\* task_hint): the sections of the wrapped text, which "\n\n" joins.
build_wrapped_user_message(user_message, product_hint, language_hint, task_hint) ==
    LET q_products ==
            detect_products(user_message)
                \cup (IF Truthy(product_hint) THEN {Strip(product_hint)} ELSE {})
        scope_line ==
            IF q_products # {} THEN Section("scope", q_products, <<>>) ELSE NoSection
        intent == categorize_intent(user_message, product_hint, language_hint)
        exact_line ==
            IF needs_exact_fact(user_message)
            THEN Section("exact", {"Not found in the provided knowledge base."}, <<>>)
            ELSE NoSection
        code_line ==
            IF intent = "CODE"
            THEN Section("code", {}, hint_block(product_hint, language_hint, task_hint))
            ELSE NoSection
        parts ==
            <<Section("preamble", {"You are responding to an end-user question."}, <<>>),
              scope_line,
              exact_line,
              code_line,
              format_line,
              Section("question", StripText(user_message),
                      <<Item("User question:", None)>>)>>
    IN  SelectSeq(parts, LAMBDA p : p # NoSection)

\* Mutant: every product of the answer is listed for removal.
extras_all(question, answer) == detect_products(answer)

\* Lines 354-356: the products of the answer the question did not name
\* (`sorted(a_prod - q_prod)`, the order being that of the names).
extras(question, answer) == detect_products(answer) \ detect_products(question)

\* Lines 358-366: the rewrite prompt, as the lines it is made of.
rewrite_prompt(question, answer) ==
    LET q_prod == detect_products(question) IN
    <<Section("structure", {},
              <<Item("## Answer", None), Item("## Steps / Example", None),
                Item("## Notes (optional)", None), Item("## Sources", None)>>),
      Section("no_guess", {"Not found in the provided knowledge base."}, <<>>)>>
    \o (IF q_prod # {} THEN <<Section("only", q_prod, <<>>)>> ELSE <<>>)
    \o (IF extras(question, answer) # {}
        THEN <<Section("remove", extras(question, answer), <<>>)>> ELSE <<>>)

\* ------------------------------------------------------------------------
\* Turn pipeline: configuration, value sets and state
\* ------------------------------------------------------------------------

RUN_TEMPERATURE_KNOWLEDGE == "0.2"
RUN_TEMPERATURE_CODE == "0.4"

\* Seconds; the clock of the poll loop is counted in whole seconds.
RUN_TIMEOUT_S == 60

\* The fixed system instruction string (it carries the refusal policy).
SYSTEM_INSTRUCTION == "SYSTEM_INSTRUCTION"

\* A keyword argument that was popped from run_kwargs.
Absent == "absent"

\* Largest MAX_REWRITE_ATTEMPTS the environment is given in the model.
MaxRewriteConfig == 2

\* Status fetches followed in one poll loop; the timeout ends the loop earlier.
MaxFetches == 4

\* Seconds one iteration of the poll loop can take (retrieve plus sleep).
Delays == {30, 31}

RunStatuses ==
    {"queued", "in_progress", "completed", "failed", "cancelled", "expired",
     "requires_action"}

\* The set tested at line 270.
TerminalStatuses == {"completed", "failed", "cancelled", "expired", "requires_action"}

\* run.last_error: None, or an object whose message is the string.
LastErrors == {None, "server_error"}

\* Errors a backend call raises: openai.APIError and its subclass.
BackendErrors == {"APIError", "AuthenticationError"}

\* What the installed SDK accepts.  helper: create_and_poll takes every keyword
\* ("ok"), rejects temperature, rejects temperature and instructions, or does
\* not exist.  create: runs.create takes every keyword or rejects
\* temperature/instructions.
SdkModes ==
    {[helper |-> "ok", create |-> "ok"]}
        \cup [helper : {"no_temperature", "no_kwargs", "missing"},
              create : {"ok", "strict"}]

\* The string returned at line 283.
NoTextError == {"Error: Assistant completed run but returned no text."}

GoodAnswer ==
    {"## Answer", "## Steps / Example", "## Notes (optional)", "## Sources", "Kiosk"}
BareAnswer == {"Kiosk"}
ExtraAnswer ==
    {"## Answer", "## Steps / Example", "## Notes (optional)", "## Sources", "Kiosk",
     "MetaDefender Core"}
OldAnswer == {"## Answer", "## Steps / Example", "## Sources", "as discussed before"}

\* Texts the backend writes as the answer of a run.
SampleAnswers == {GoodAnswer, BareAnswer, ExtraAnswer}

\* Requests of the users: the message and the language hint.
SampleRequests ==
    {[user_message |-> {"how do i install it"}, product_hint |-> None,
      language_hint |-> "Python"],
     [user_message |-> {"bypass", "Kiosk"}, product_hint |-> None,
      language_hint |-> "Python"]}

\* One request for each intent: KNOWLEDGE, CODE, PRIVATE, CONTEXT.
IntentRequests ==
    {[user_message |-> {"how do i install it"}, product_hint |-> "Kiosk",
      language_hint |-> None],
     [user_message |-> {"how do i install it"}, product_hint |-> None,
      language_hint |-> "Python"],
     [user_message |-> {"bypass", "Kiosk"}, product_hint |-> "MetaDefender Core",
      language_hint |-> "Python"],
     [user_message |-> {"as we discussed", "snippet"}, product_hint |-> None,
      language_hint |-> "Python"]}

\* A user message appended by the turn; content holds the sections of its
\* text.
UserMessage(kind, content) ==
    [role |-> "user", kind |-> kind, has_text |-> TRUE, text |-> {},
     content |-> content, turn |-> 1]

\* An assistant message; has_text is FALSE when msg.content is empty or its
\* first block has no text attribute.
AssistantMessage(has_text, text, turn) ==
    [role |-> "assistant", kind |-> "answer", has_text |-> has_text, text |-> text,
     turn |-> turn]

\* What a completed run leaves in the conversation: nothing, a message with no
\* readable text, or an answer.
Produced ==
    {<<>>, <<AssistantMessage(FALSE, {}, 1)>>}
        \cup {<<AssistantMessage(TRUE, a, 1)>> : a \in SampleAnswers}

NoRun == [status |-> "none", last_error |-> None]
NoOutcome == [kind |-> "none", error |-> None, msg |-> None]
NoKwargs == [instructions |-> Absent, temperature |-> Absent]

VARIABLES
    MAX_REWRITE_ATTEMPTS,            \* configuration read from the environment
    ENABLE_FORMAT_GUARDRAIL,
    ENABLE_PRODUCT_SCOPE_GUARDRAIL,
    sdk,                             \* what the installed SDK accepts
    user_message,                    \* arguments of get_assistant_response
    product_hint,
    language_hint,
    tpc,                             \* position in get_assistant_response
    phase,                           \* "first" (line 330) or "rewrite" (line 374)
    temperature,
    run_kwargs,                      \* run_kwargs / run_kwargs_create
    run,                             \* the run object last returned
    elapsed,                         \* time.time() - start, capped past the timeout
    conv,                            \* the backend conversation: its messages
    answer,
    rewrite_attempts,
    outcome,                         \* how the turn ended
    submitted,                       \* history: the runs submitted in this turn
    rewrite_runs,                    \* history: _create_and_poll_run calls at line 374
    lists,                           \* history: messages.list calls
    swallowed,                       \* history: error swallowed at line 252
    fetches,                         \* history: runs.retrieve calls of the poll loop
    in_flight                        \* runs submitted to the conversation that no
                                     \* call has returned in a terminal state:
                                     \* queued or in progress when last heard of

turnVars ==
    <<MAX_REWRITE_ATTEMPTS, ENABLE_FORMAT_GUARDRAIL, ENABLE_PRODUCT_SCOPE_GUARDRAIL, sdk,
      user_message, product_hint, language_hint, tpc, phase, temperature, run_kwargs,
      run, elapsed,
      conv, answer, rewrite_attempts, outcome, submitted, rewrite_runs, lists,
      swallowed, fetches, in_flight>>

\* ------------------------------------------------------------------------
\* Calls of the text functions: value sets and state
\* ------------------------------------------------------------------------

\* Phrases of a text of the model, at most.
MaxPhrases == 3

\* Phrases the questions are written with: a private phrase, a context
\* phrase, a code keyword, an exact-fact keyword, a product name, a product
\* synonym that holds a code and exact-fact keyword, a neutral phrase, and
\* blanks around the text.
MessagePhrases ==
    {"bypass", "as we discussed", "snippet", "port", "Kiosk", "endpoint security",
     "how do i install it", " "}

\* Phrases the answers are written with.
AnswerPhrases ==
    {"## Answer", "## Steps / Example", "## Notes (optional)", "## Sources", "Kiosk",
     "MetaDefender Core"}

Texts(phrases) == {t \in SUBSET phrases : Cardinality(t) <= MaxPhrases}

Messages == Texts(MessagePhrases)
Answers == SUBSET AnswerPhrases

ProductHints == {None, "", " ", "Kiosk"}
LanguageHints == {None, "", " ", "Python"}
TaskHints == {None, "upload a file"}

\* The arguments of one call.
Args(fn, m, ph, lh, th, a) ==
    [fn |-> fn, user_message |-> m, product_hint |-> ph, language_hint |-> lh,
     task_hint |-> th, answer |-> a]

NoArgs == Args("none", {}, None, None, None, {})
NoResult == [ret |-> None, extras |-> {}]

VARIABLES
    t_pc,        \* "ready" before the call, "returned" after it
    t_args,      \* the function called and its arguments
    t_result     \* the value returned (and the extras diagnosed at line 356)

textVars == <<t_pc, t_args, t_result>>

\* ------------------------------------------------------------------------
\* retry_with_backoff (auto_evaluator.py): value sets and state
\* ------------------------------------------------------------------------

\* Largest `retries` argument of the model.
MaxRetries == 3

\* random.uniform(0, 1) = 0 + (1 - 0) * random(), a value of [0, 1): some of
\* its values, in tenths of a second (times are counted in tenths).
Jitter == {0, 5, 9}

\* What func raises: RateLimitError; an APIError whose status_code is 429; an
\* APIError of the 5xx class (InternalServerError, status_code 500 or 503); an
\* APIError without status_code (APIConnectionError); an error that is no
\* APIError (json.JSONDecodeError of line 95).
RateLimitErrors == {"RateLimitError", "APIError_429"}
ServiceErrors5xx == {"APIError_500", "APIError_503"}
ApiErrors == RateLimitErrors \cup ServiceErrors5xx \cup {"APIConnectionError"}
FuncErrors == ApiErrors \cup {"JSONDecodeError"}

NoRetryOutcome == [kind |-> "none", value |-> None]

VARIABLES
    r_pc,            \* position in retry_with_backoff
    retries,         \* arguments
    initial_delay,
    r_i,             \* loop index i
    delay,
    r_calls,         \* history: what each call of func did ("ok" or the error)
    r_slept,         \* history: the sleep_time of each time.sleep
    r_outcome        \* how retry_with_backoff ended

retryVars == <<r_pc, retries, initial_delay, r_i, delay, r_calls, r_slept, r_outcome>>

vars == <<storeVars, turnVars, textVars, retryVars>>

\* _get_latest_assistant_text over messages.data in descending order: the
\* newest assistant message with readable text, else the string of line 283.
RECURSIVE LatestAssistantText(_, _)
LatestAssistantText(messages, i) ==
    IF i = 0 THEN NoTextError
    ELSE IF messages[i].role = "assistant" /\ messages[i].has_text
    THEN messages[i].text
    ELSE LatestAssistantText(messages, i - 1)

_get_latest_assistant_text(messages) == LatestAssistantText(messages, Len(messages))

\* Mutant: every intent gets the focused temperature.
SelectTemperature_focused(intent) == RUN_TEMPERATURE_KNOWLEDGE

\* Line 313.
SelectTemperature(intent) ==
    IF intent = "CODE" THEN RUN_TEMPERATURE_CODE ELSE RUN_TEMPERATURE_KNOWLEDGE

\* Mutant: the guardrails run whatever the configuration flags say.
needs_rewrite_ignoring_flags(question, ans) ==
    \/ ~_has_required_markdown_structure(ans)
    \/ ~_enforce_product_scope(question, ans)

\* Lines 342-348: the verdict of the enabled guardrails on the working answer.
needs_rewrite(question, ans) ==
    \/ ENABLE_FORMAT_GUARDRAIL /\ ~_has_required_markdown_structure(ans)
    \/ ENABLE_PRODUCT_SCOPE_GUARDRAIL /\ ~_enforce_product_scope(question, ans)

\* Mutant: the run-failure error always carries the status.
error_msg_status(r) == r.status

\* Line 333: the text carried by the run-failure error.
error_msg(r) == IF r.last_error # None THEN r.last_error ELSE r.status

\* ------------------------------------------------------------------------
\* Request handlers (app_updated.py)
\* ------------------------------------------------------------------------

StoreInit ==
    /\ threads = [u \in Users |-> None]
    /\ nextThread = 0
    /\ convs = [u \in Users |-> {}]
    /\ wpc = [w \in Workers |-> "idle"]
    /\ wreq = [w \in Workers |-> NoRequest]
    /\ wtid = [w \in Workers |-> None]
    /\ wresp = [w \in Workers |-> NoResponse]

\* POST /chat arrives: `thread_id = data.thread_id or get_or_create_thread(user_id)`.
\* A truthy supplied thread_id short-circuits the store.
ChatStart(w) ==
    /\ wpc[w] = "idle"
    /\ \E u \in Users, tid \in ChatThreadArgs :
        /\ wreq' = [wreq EXCEPT ![w] = [op |-> "chat", user_id |-> u, thread_id |-> tid]]
        /\ IF Truthy(tid)
           THEN /\ wtid' = [wtid EXCEPT ![w] = tid]
                /\ wpc' = [wpc EXCEPT ![w] = "turn"]
           ELSE /\ wtid' = [wtid EXCEPT ![w] = None]
                /\ wpc' = [wpc EXCEPT ![w] = "goc_check"]
    /\ wresp' = [wresp EXCEPT ![w] = NoResponse]
    /\ UNCHANGED <<threads, nextThread, convs>>
    /\ UNCHANGED <<turnVars, textVars, retryVars>>

\* get_or_create_thread, lines 204-205: the membership test and the early return.
GetOrCreateCheck(w) ==
    /\ wpc[w] = "goc_check"
    /\ IF HasThread(threads, wreq[w].user_id)
       THEN /\ wtid' = [wtid EXCEPT ![w] = threads[wreq[w].user_id]]
            /\ wpc' = [wpc EXCEPT ![w] = "turn"]
       ELSE /\ wtid' = wtid
            /\ wpc' = [wpc EXCEPT ![w] = "goc_create"]
    /\ UNCHANGED <<threads, nextThread, convs, wreq, wresp>>
    /\ UNCHANGED <<turnVars, textVars, retryVars>>

\* get_or_create_thread, line 208: the blocking backend call returns a new thread.
ThreadsCreate(w) ==
    /\ wpc[w] = "goc_create"
    /\ nextThread < MaxThreads
    /\ nextThread' = nextThread + 1
    /\ wtid' = [wtid EXCEPT ![w] = AllThreadIds[nextThread + 1]]
    /\ convs' = [convs EXCEPT ![wreq[w].user_id] = @ \cup {AllThreadIds[nextThread + 1]}]
    /\ wpc' = [wpc EXCEPT ![w] = "goc_store"]
    /\ UNCHANGED <<threads, wreq, wresp>>
    /\ UNCHANGED <<turnVars, textVars, retryVars>>

\* get_or_create_thread, line 208 raising: chat() answers 401 / the API status / 500.
ThreadsCreateFails(w) ==
    /\ wpc[w] = "goc_create"
    /\ \E code \in {401, 500} :
        wresp' = [wresp EXCEPT ![w] = [code |-> code, deleted |-> FALSE, thread_id |-> None]]
    /\ wpc' = [wpc EXCEPT ![w] = "idle"]
    /\ UNCHANGED <<threads, nextThread, convs, wreq, wtid>>
    /\ UNCHANGED <<turnVars, textVars, retryVars>>

\* get_or_create_thread, lines 209-210: store the mapping and return thread.id.
GetOrCreateStore(w) ==
    /\ wpc[w] = "goc_store"
    /\ threads' = StoreThread(threads, wreq[w].user_id, wtid[w])
    /\ wpc' = [wpc EXCEPT ![w] = "turn"]
    /\ UNCHANGED <<nextThread, convs, wreq, wtid, wresp>>
    /\ UNCHANGED <<turnVars, textVars, retryVars>>

\* chat(), lines 116-141: the turn runs on wtid[w] and the response is sent
\* (200 with the thread_id, or an error status when the turn raised).
ChatRespond(w) ==
    /\ wpc[w] = "turn"
    /\ \E code \in {200, 401, 500} :
        wresp' = [wresp EXCEPT ![w] =
                    [code |-> code, deleted |-> FALSE,
                     thread_id |-> IF code = 200 THEN wtid[w] ELSE None]]
    /\ wpc' = [wpc EXCEPT ![w] = "idle"]
    /\ wtid' = [wtid EXCEPT ![w] = None]
    /\ UNCHANGED <<threads, nextThread, convs, wreq>>
    /\ UNCHANGED <<turnVars, textVars, retryVars>>

\* delete_thread_endpoint / ThreadManager.delete_thread(user_id, thread_id):
\* 200 and deleted=true on success, 404 and deleted=false otherwise.
DeleteThread(w) ==
    /\ wpc[w] = "idle"
    /\ \E u \in Users, tid \in DeleteThreadArgs :
        LET r == delete_thread(threads, u, tid) IN
        /\ threads' = r.threads
        /\ convs' = IF r.ret THEN [convs EXCEPT ![u] = {}] ELSE convs
        /\ wreq' = [wreq EXCEPT ![w] = [op |-> "delete", user_id |-> u, thread_id |-> tid]]
        /\ wresp' = [wresp EXCEPT ![w] =
                       [code |-> IF r.ret THEN 200 ELSE 404, deleted |-> r.ret,
                        thread_id |-> tid]]
    /\ UNCHANGED <<nextThread, wpc, wtid>>
    /\ UNCHANGED <<turnVars, textVars, retryVars>>

WorkerStep(w) ==
    \/ ChatStart(w)
    \/ GetOrCreateCheck(w)
    \/ ThreadsCreate(w)
    \/ ThreadsCreateFails(w)
    \/ GetOrCreateStore(w)
    \/ ChatRespond(w)
    \/ DeleteThread(w)

\* ------------------------------------------------------------------------
\* Properties of the thread store
\* ------------------------------------------------------------------------

\* The worker's get_or_create_thread call has returned wtid[w].
ReturnedFromStore(w) ==
    /\ wpc[w] = "turn"
    /\ wreq[w].op = "chat"
    /\ ~Truthy(wreq[w].thread_id)

\* C1: concurrent get_or_create_thread calls for one user with no mapping
\* create exactly one backend conversation, and every caller returns the id
\* stored in the mapping.
C1_OneConversationPerUser ==
    /\ \A u \in Users : Cardinality(convs[u]) <= 1
    /\ \A w \in Workers :
        (ReturnedFromStore(w) /\ wtid[w] \in convs[wreq[w].user_id])
            => threads[wreq[w].user_id] = wtid[w]

\* C2: delete_thread on a user with a stored mapping and a supplied expected
\* id that differs from the stored one returns false and leaves the whole
\* table unchanged.
C2_WrongIdDeleteIsNoOp ==
    [][\A w \in Workers :
        DeleteThread(w) =>
            LET u == wreq'[w].user_id
                tid == wreq'[w].thread_id
            IN  (HasThread(threads, u) /\ tid # None /\ tid # threads[u])
                    => (~wresp'[w].deleted /\ threads' = threads)]_vars

\* C3: delete_thread returns true only if a mapping existed; on a user with no
\* mapping it returns false (404, deleted=false) and changes nothing; after a
\* delete that returned true (200, deleted=true) the user has no mapping and
\* the same delete repeated returns false.
C3_DeleteOnlyExisting ==
    [][\A w \in Workers :
        DeleteThread(w) =>
            LET u == wreq'[w].user_id
                tid == wreq'[w].thread_id
            IN  /\ wresp'[w].deleted
                    => /\ threads[u] # None
                       /\ threads'[u] = None
                       /\ wresp'[w].code = 200
                       /\ ~delete_thread(threads', u, tid).ret
                /\ threads[u] = None
                    => /\ ~wresp'[w].deleted
                       /\ threads' = threads
                /\ ~wresp'[w].deleted => wresp'[w].code = 404]_vars

\* Witness of C3: a delete answered 200/deleted=true and the same delete
\* answered 404/deleted=false, the user being left without mapping.
C3_Witness ==
    \E w, v \in Workers :
        /\ wreq[w].op = "delete"
        /\ wreq[v] = wreq[w]
        /\ wresp[w].code = 200 /\ wresp[w].deleted
        /\ wresp[v].code = 404 /\ ~wresp[v].deleted
        /\ threads[wreq[w].user_id] = None

\* C4: with the calls executed one at a time, get_or_create_thread creates a
\* conversation only when the user has no mapping and otherwise returns the
\* stored id without creating anything; all calls for a user with no
\* successful delete between them return the same id, and the first call after
\* a successful delete creates a new conversation.
C4_SequentialGetOrCreate ==
    /\ [](/\ \A u \in Users :
              /\ Cardinality(convs[u]) <= 1
              /\ threads[u] # None => threads[u] \in convs[u]
          /\ \A w \in Workers :
              /\ wpc[w] \in {"goc_create", "goc_store"}
                    => threads[wreq[w].user_id] = None
              /\ ReturnedFromStore(w)
                    => /\ wtid[w] \in convs[wreq[w].user_id]
                       /\ wtid[w] = threads[wreq[w].user_id])
    /\ [][\A w \in Workers :
            /\ (GetOrCreateCheck(w) /\ threads[wreq[w].user_id] # None)
                  => /\ nextThread' = nextThread
                     /\ wtid'[w] = threads[wreq[w].user_id]
                     /\ wpc'[w] = "turn"
            /\ (GetOrCreateCheck(w) /\ threads[wreq[w].user_id] = None)
                  => wpc'[w] = "goc_create"
            /\ ThreadsCreate(w) => wtid'[w] \notin {threads[u] : u \in Users}]_vars

\* Witness of C4: a user's mapping was deleted (the delete named the stored id)
\* and the next get_or_create_thread returned another, newly stored id.
C4_Witness ==
    \E w, v \in Workers :
        /\ ReturnedFromStore(w)
        /\ wtid[w] = threads[wreq[w].user_id]
        /\ wreq[v].op = "delete"
        /\ wreq[v].user_id = wreq[w].user_id
        /\ wresp[v].deleted
        /\ wresp[v].thread_id \in ThreadIds
        /\ wresp[v].thread_id # wtid[w]

\* The worker serves a /chat request that supplies its own thread_id.
SuppliesThread(req) == req.op = "chat" /\ req.thread_id \notin {None, ""}

\* C30: the thread mapping table is mutated only by get_or_create_thread and
\* delete_thread: processing a turn (get_assistant_response), whether it
\* returns an answer, raises a run failure or times out, leaves every user's
\* mapping unchanged, and a request that supplies its own thread_id neither
\* creates a conversation nor touches the table.
C30_TableMutatedOnlyByStore ==
    [][/\ threads' # threads =>
            \E w \in Workers :
                \/ /\ wpc[w] = "goc_store"
                   /\ wpc'[w] = "turn"
                   /\ threads' = [threads EXCEPT ![wreq[w].user_id] = wtid[w]]
                \/ /\ wpc[w] = "idle"
                   /\ wreq'[w].op = "delete"
                   /\ wresp'[w].deleted
                   /\ threads' = [threads EXCEPT ![wreq'[w].user_id] = None]
       /\ \A w \in Workers :
            (wpc[w] = "turn" /\ wpc'[w] = "idle")
                => /\ threads' = threads
                   /\ nextThread' = nextThread
                   /\ wresp'[w].code \in {200, 401, 500}
       /\ \A w \in Workers :
            (wpc[w] = "idle" /\ wpc'[w] # "idle" /\ SuppliesThread(wreq'[w]))
                => /\ wpc'[w] = "turn"
                   /\ wtid'[w] = wreq'[w].thread_id
                   /\ threads' = threads
                   /\ nextThread' = nextThread
       /\ \A w \in Workers :
            (SuppliesThread(wreq[w]) /\ wpc[w] # "idle")
                => (wpc[w] = "turn" /\ wpc'[w] \in {"turn", "idle"})]_vars

\* Witness of C30: a /chat request with its own thread_id was answered on that
\* conversation while the table is empty and no conversation was created.
C30_Witness ==
    \E w \in Workers :
        /\ wpc[w] = "idle"
        /\ SuppliesThread(wreq[w])
        /\ wresp[w].code = 200
        /\ wresp[w].thread_id = "thread_x"
        /\ \A u \in Users : threads[u] = None
        /\ nextThread = 0

\* C34: after any successful /chat turn for user u that returned thread_id t,
\* whether t was created by the store or supplied by the caller, the thread
\* store holds the mapping u -> t, so a following delete_thread(u, t) returns
\* true and a following turn for u without thread_id runs on t.
C34_SuccessfulTurnLeavesMapping ==
    [][\A w \in Workers :
          (wpc[w] = "turn" /\ wpc'[w] = "idle" /\ wresp'[w].code = 200)
              => LET u == wreq[w].user_id
                     t == wresp'[w].thread_id
                 IN  /\ threads'[u] = t
                     /\ delete_thread(threads', u, t).ret
                     /\ HasThread(threads', u)]_vars

\* ------------------------------------------------------------------------
\* Turn pipeline: get_assistant_response and _create_and_poll_run
\* ------------------------------------------------------------------------

cfgVars ==
    <<MAX_REWRITE_ATTEMPTS, ENABLE_FORMAT_GUARDRAIL, ENABLE_PRODUCT_SCOPE_GUARDRAIL, sdk,
      user_message, product_hint, language_hint>>

\* The state before get_assistant_response is called; the conversation is new
\* or holds the answer of an earlier turn.
TurnInitFor(requests) ==
    /\ MAX_REWRITE_ATTEMPTS \in 0..MaxRewriteConfig
    /\ ENABLE_FORMAT_GUARDRAIL \in BOOLEAN
    /\ ENABLE_PRODUCT_SCOPE_GUARDRAIL \in BOOLEAN
    /\ sdk \in SdkModes
    /\ \E r \in requests :
        /\ user_message = r.user_message
        /\ product_hint = r.product_hint
        /\ language_hint = r.language_hint
    /\ tpc = "start"
    /\ phase = "first"
    /\ temperature = None
    /\ run_kwargs = NoKwargs
    /\ run = NoRun
    /\ elapsed = 0
    /\ conv \in {<<>>, <<AssistantMessage(TRUE, OldAnswer, 0)>>}
    /\ answer = {}
    /\ rewrite_attempts = 0
    /\ outcome = NoOutcome
    /\ submitted = <<>>
    /\ rewrite_runs = 0
    /\ lists = 0
    /\ swallowed = None
    /\ fetches = 0
    /\ in_flight = 0

TurnInit == TurnInitFor(SampleRequests)

\* `raise`: the turn ends with the error.
Raised(error, msg) == [kind |-> "raised", error |-> error, msg |-> msg]

\* `return answer`
Returned == [kind |-> "returned", error |-> None, msg |-> None]

\* Mutant: a rewrite run that did not complete raises like the first run.
OnRunNotCompleted_raise(ph, r) == Raised("Exception", error_msg(r))

\* Lines 332-334 and 375-376: a run that did not complete fails the turn when it
\* is the first run, and ends the rewrite loop (return answer) otherwise.
OnRunNotCompleted(ph, r) ==
    IF ph = "first" THEN Raised("Exception", error_msg(r)) ELSE Returned

\* Mutant: every terminal status counts as completed.
RunCompleted_any_terminal(r) == r.status \in TerminalStatuses

\* Lines 332 and 375: `run.status != "completed"`.
RunCompleted(r) == r.status = "completed"

\* Mutant: the loop test lets one more attempt through.
RewriteLoopContinues_off_by_one(attempts) == attempts <= MAX_REWRITE_ATTEMPTS

\* Line 341: `while rewrite_attempts < MAX_REWRITE_ATTEMPTS`.
RewriteLoopContinues(attempts) == attempts < MAX_REWRITE_ATTEMPTS

\* Mutant: the timeout fires when the limit is reached, not when it is exceeded.
TimedOut_at_limit(e) == e >= RUN_TIMEOUT_S

\* Line 272: `time.time() - start > RUN_TIMEOUT_S`.
TimedOut(e) == e > RUN_TIMEOUT_S

\* Mutant: the clock stands still.
Elapsed_frozen(e, d) == e

\* `time.time() - start` one iteration (retrieve and sleep, d seconds) later.
Elapsed(e, d) == e + d

\* Lines 237-242: the keyword arguments _create_and_poll_run starts from.
NewRunKwargs(temp) == [instructions |-> SYSTEM_INSTRUCTION, temperature |-> temp]

\* Whether create_and_poll takes the keyword arguments (else TypeError).
HelperAccepts(kw) ==
    \/ sdk.helper = "ok"
    \/ sdk.helper = "no_temperature" /\ kw.temperature = Absent

\* Whether runs.create takes the keyword arguments (else TypeError).
CreateAccepts(kw) ==
    \/ sdk.create = "ok"
    \/ kw.temperature = Absent /\ kw.instructions = Absent

\* The record of a run submitted to the backend.
Submission(via, kw) ==
    [via |-> via, instructions |-> kw.instructions, temperature |-> kw.temperature,
     phase |-> phase]

\* What a run that reached `status` has left in the conversation.
ProducedBy(status) == IF status = "completed" THEN Produced ELSE {<<>>}

\* last_error values a run in `status` can carry: the backend sets it on a
\* failed run.
LastErrorsOf(status) == IF status = "failed" THEN LastErrors ELSE {None}

\* Lines 309-320: the ASSISTANT_ID test, the intent, the temperature and the
\* wrapped message.
TurnStart ==
    /\ tpc = "start"
    /\ \E ASSISTANT_ID \in {None, "asst_1"} :
        IF ~Truthy(ASSISTANT_ID)
        THEN /\ tpc' = "done"
             /\ outcome' = Raised("ValueError", "ASSISTANT_ID is not set")
             /\ temperature' = temperature
        ELSE /\ tpc' = "append"
             /\ outcome' = outcome
             /\ temperature' =
                   SelectTemperature(categorize_intent(user_message, product_hint,
                                                       language_hint))
    /\ UNCHANGED <<phase, run_kwargs, run, elapsed, conv, answer, rewrite_attempts,
                   submitted, rewrite_runs, lists, swallowed>>
    /\ UNCHANGED <<cfgVars, storeVars, fetches, in_flight, textVars, retryVars>>

\* Lines 323-330: the wrapped message is appended and _create_and_poll_run
\* is entered.
AppendWrapped ==
    /\ tpc = "append"
    /\ conv' = Append(conv, UserMessage("wrapped",
                          build_wrapped_user_message(user_message, product_hint,
                                                     language_hint, None)))
    /\ phase' = "first"
    /\ run_kwargs' = NewRunKwargs(temperature)
    /\ tpc' = "cap1"
    /\ UNCHANGED <<temperature, run, elapsed, answer, rewrite_attempts, outcome,
                   submitted, rewrite_runs, lists, swallowed>>
    /\ UNCHANGED <<cfgVars, storeVars, fetches, in_flight, textVars, retryVars>>

\* messages.create raising (line 323 or line 368): the error propagates.
AppendRaises ==
    /\ tpc \in {"append", "rw_append"}
    /\ \E e \in BackendErrors : outcome' = Raised(e, e)
    /\ tpc' = "done"
    /\ UNCHANGED <<phase, temperature, run_kwargs, run, elapsed, conv, answer,
                   rewrite_attempts, submitted, rewrite_runs, lists, swallowed>>
    /\ UNCHANGED <<cfgVars, storeVars, fetches, in_flight, textVars, retryVars>>

\* Line 246 or line 251: create_and_poll submits the run, waits and returns it
\* in a terminal state.
CombinedReturns ==
    /\ tpc \in {"cap1", "cap2"}
    /\ HelperAccepts(run_kwargs)
    /\ \E st \in TerminalStatuses :
        \E new \in ProducedBy(st), le \in LastErrorsOf(st) :
            /\ run' = [status |-> st, last_error |-> le]
            /\ conv' = conv \o new
    /\ submitted' = Append(submitted, Submission("create_and_poll", run_kwargs))
    /\ run_kwargs' = NoKwargs
    /\ swallowed' = None
    /\ tpc' = "check_run"
    /\ UNCHANGED <<phase, temperature, elapsed, answer, rewrite_attempts,
                   outcome, rewrite_runs, lists>>
    /\ UNCHANGED <<cfgVars, storeVars, fetches, in_flight, textVars, retryVars>>

\* Line 246: create_and_poll raises a backend error, before or after the run
\* was created; no except clause matches and it propagates.
CombinedRaises ==
    /\ tpc = "cap1"
    /\ HelperAccepts(run_kwargs)
    /\ \E e \in BackendErrors : outcome' = Raised(e, e)
    /\ \E created \in BOOLEAN :
        /\ submitted' = IF created
                        THEN Append(submitted, Submission("create_and_poll", run_kwargs))
                        ELSE submitted
        /\ in_flight' = IF created THEN in_flight + 1 ELSE in_flight
    /\ tpc' = "done"
    /\ UNCHANGED <<phase, temperature, run_kwargs, run, elapsed, conv, answer,
                   rewrite_attempts, rewrite_runs, lists, swallowed>>
    /\ UNCHANGED <<cfgVars, storeVars, fetches, textVars, retryVars>>

\* Lines 247-249: create_and_poll rejects the keywords; temperature is popped.
CombinedTypeError ==
    /\ tpc = "cap1"
    /\ sdk.helper \in {"no_temperature", "no_kwargs"}
    /\ run_kwargs' = [run_kwargs EXCEPT !.temperature = Absent]
    /\ tpc' = "cap2"
    /\ UNCHANGED <<phase, temperature, run, elapsed, conv, answer, rewrite_attempts,
                   outcome, submitted, rewrite_runs, lists, swallowed>>
    /\ UNCHANGED <<cfgVars, storeVars, fetches, in_flight, textVars, retryVars>>

\* Lines 254-255: the SDK has no create_and_poll (AttributeError).
CombinedMissing ==
    /\ tpc = "cap1"
    /\ sdk.helper = "missing"
    /\ tpc' = "create1"
    /\ UNCHANGED <<phase, temperature, run_kwargs, run, elapsed, conv, answer,
                   rewrite_attempts, outcome, submitted, rewrite_runs, lists,
                   swallowed>>
    /\ UNCHANGED <<cfgVars, storeVars, fetches, in_flight, textVars, retryVars>>

\* Lines 251-253: the second create_and_poll raises a backend error, before or
\* after the run was created; `except Exception: pass` falls through.
CombinedRetryRaises ==
    /\ tpc = "cap2"
    /\ HelperAccepts(run_kwargs)
    /\ \E e \in BackendErrors : swallowed' = e
    /\ \E created \in BOOLEAN :
        /\ submitted' = IF created
                        THEN Append(submitted, Submission("create_and_poll", run_kwargs))
                        ELSE submitted
        /\ in_flight' = IF created THEN in_flight + 1 ELSE in_flight
    /\ tpc' = "create1"
    /\ UNCHANGED <<phase, temperature, run_kwargs, run, elapsed, conv, answer,
                   rewrite_attempts, outcome, rewrite_runs, lists>>
    /\ UNCHANGED <<cfgVars, storeVars, fetches, textVars, retryVars>>

\* Lines 251-253: the second create_and_poll rejects the keywords again.
CombinedRetryTypeError ==
    /\ tpc = "cap2"
    /\ ~HelperAccepts(run_kwargs)
    /\ swallowed' = "TypeError"
    /\ tpc' = "create1"
    /\ UNCHANGED <<phase, temperature, run_kwargs, run, elapsed, conv, answer,
                   rewrite_attempts, outcome, submitted, rewrite_runs, lists>>
    /\ UNCHANGED <<cfgVars, storeVars, fetches, in_flight, textVars, retryVars>>

\* Lines 261 / 265 and 267: runs.create submits the run; start = time.time().
RunsCreate ==
    /\ tpc \in {"create1", "create2"}
    /\ CreateAccepts(run_kwargs)
    /\ submitted' = Append(submitted, Submission("create", run_kwargs))
    /\ run' = [status |-> "queued", last_error |-> None]
    /\ in_flight' = in_flight + 1
    /\ elapsed' = 0
    /\ tpc' = "poll"
    /\ UNCHANGED <<phase, temperature, run_kwargs, conv, answer, rewrite_attempts,
                   outcome, rewrite_runs, lists, swallowed>>
    /\ fetches' = 0
    /\ UNCHANGED <<cfgVars, storeVars, textVars, retryVars>>

\* Lines 262-264: runs.create rejects the keywords; both are popped.
RunsCreateTypeError ==
    /\ tpc = "create1"
    /\ ~CreateAccepts(run_kwargs)
    /\ run_kwargs' = NoKwargs
    /\ tpc' = "create2"
    /\ UNCHANGED <<phase, temperature, run, elapsed, conv, answer, rewrite_attempts,
                   outcome, submitted, rewrite_runs, lists, swallowed>>
    /\ UNCHANGED <<cfgVars, storeVars, fetches, in_flight, textVars, retryVars>>

\* Lines 261 / 265: runs.create raises a backend error, which propagates.
RunsCreateRaises ==
    /\ tpc \in {"create1", "create2"}
    /\ CreateAccepts(run_kwargs)
    /\ \E e \in BackendErrors : outcome' = Raised(e, e)
    /\ tpc' = "done"
    /\ UNCHANGED <<phase, temperature, run_kwargs, run, elapsed, conv, answer,
                   rewrite_attempts, submitted, rewrite_runs, lists, swallowed>>
    /\ UNCHANGED <<cfgVars, storeVars, fetches, in_flight, textVars, retryVars>>

\* Lines 268-274: one iteration of the poll loop: the status is retrieved `d`
\* seconds after the previous reading of the clock; a terminal run is returned
\* (the locals of _create_and_poll_run are dropped), a late one times out.
PollRun ==
    /\ tpc = "poll"
    /\ fetches < MaxFetches
    /\ \/ \E st \in TerminalStatuses :
            \E new \in ProducedBy(st), le \in LastErrorsOf(st) :
                /\ run' = [status |-> st, last_error |-> le]
                /\ in_flight' = in_flight - 1
                /\ conv' = conv \o new
                /\ elapsed' = 0
                /\ run_kwargs' = NoKwargs
                /\ swallowed' = None
                /\ tpc' = "check_run"
                /\ outcome' = outcome
       \/ \E d \in Delays, st \in RunStatuses \ TerminalStatuses :
            /\ run' = [status |-> st, last_error |-> None]
            /\ elapsed' = Elapsed(elapsed, d)
            /\ IF TimedOut(Elapsed(elapsed, d))
               THEN /\ tpc' = "done"
                    /\ outcome' = Raised("TimeoutError", "timed out")
               ELSE /\ tpc' = "poll"
                    /\ outcome' = outcome
            /\ UNCHANGED <<conv, run_kwargs, swallowed, in_flight>>
    /\ UNCHANGED <<phase, temperature, answer, rewrite_attempts, submitted,
                   rewrite_runs, lists>>
    /\ fetches' = fetches + 1
    /\ UNCHANGED <<cfgVars, storeVars, textVars, retryVars>>

\* Line 269: runs.retrieve raises a backend error, which propagates.
PollRaises ==
    /\ tpc = "poll"
    /\ fetches < MaxFetches
    /\ \E e \in BackendErrors : outcome' = Raised(e, e)
    /\ tpc' = "done"
    /\ UNCHANGED <<phase, temperature, run_kwargs, run, elapsed, conv, answer,
                   rewrite_attempts, submitted, rewrite_runs, lists, swallowed>>
    /\ fetches' = fetches + 1
    /\ UNCHANGED <<cfgVars, storeVars, in_flight, textVars, retryVars>>

\* Lines 332-334 (first run) and 375-376 (rewrite run): the test of run.status.
CheckRun ==
    /\ tpc = "check_run"
    /\ IF RunCompleted(run)
       THEN /\ tpc' = "read"
            /\ outcome' = outcome
       ELSE /\ tpc' = "done"
            /\ outcome' = OnRunNotCompleted(phase, run)
    /\ UNCHANGED <<phase, temperature, run_kwargs, run, elapsed, conv, answer,
                   rewrite_attempts, submitted, rewrite_runs, lists, swallowed>>
    /\ fetches' = 0
    /\ UNCHANGED <<cfgVars, storeVars, in_flight, textVars, retryVars>>

\* Lines 337 / 377: answer = _get_latest_assistant_text(thread_id).
ReadAnswer ==
    /\ tpc = "read"
    /\ lists' = lists + 1
    /\ answer' = _get_latest_assistant_text(conv)
    /\ tpc' = "guard"
    /\ UNCHANGED <<phase, temperature, run_kwargs, run, elapsed, conv,
                   rewrite_attempts, outcome, submitted, rewrite_runs, swallowed>>
    /\ UNCHANGED <<cfgVars, storeVars, fetches, in_flight, textVars, retryVars>>

\* Line 278: messages.list raises a backend error, which propagates.
ReadRaises ==
    /\ tpc = "read"
    /\ lists' = lists + 1
    /\ \E e \in BackendErrors : outcome' = Raised(e, e)
    /\ tpc' = "done"
    /\ UNCHANGED <<phase, temperature, run_kwargs, run, elapsed, conv, answer,
                   rewrite_attempts, submitted, rewrite_runs, swallowed>>
    /\ UNCHANGED <<cfgVars, storeVars, fetches, in_flight, textVars, retryVars>>

\* Lines 341-366 and 379: the loop test, the guardrails, the attempt counter
\* and the rewrite prompt; or the return of the working answer.
GuardCheck ==
    /\ tpc = "guard"
    /\ IF RewriteLoopContinues(rewrite_attempts) /\ needs_rewrite(user_message, answer)
       THEN /\ rewrite_attempts' = rewrite_attempts + 1
            /\ tpc' = "rw_append"
            /\ outcome' = outcome
       ELSE /\ rewrite_attempts' = rewrite_attempts
            /\ tpc' = "done"
            /\ outcome' = Returned
    /\ UNCHANGED <<phase, temperature, run_kwargs, run, elapsed, conv, answer,
                   submitted, rewrite_runs, lists, swallowed>>
    /\ UNCHANGED <<cfgVars, storeVars, fetches, in_flight, textVars, retryVars>>

\* Lines 368-374: the rewrite prompt is appended and _create_and_poll_run is
\* entered again.
AppendRewrite ==
    /\ tpc = "rw_append"
    /\ conv' = Append(conv, UserMessage("rewrite",
                                         rewrite_prompt(user_message, answer)))
    /\ phase' = "rewrite"
    /\ rewrite_runs' = rewrite_runs + 1
    /\ run_kwargs' = NewRunKwargs(temperature)
    /\ tpc' = "cap1"
    /\ UNCHANGED <<temperature, run, elapsed, answer, rewrite_attempts, outcome,
                   submitted, lists, swallowed>>
    /\ UNCHANGED <<cfgVars, storeVars, fetches, in_flight, textVars, retryVars>>

TurnNext ==
    \/ TurnStart
    \/ AppendWrapped
    \/ AppendRaises
    \/ CombinedReturns
    \/ CombinedRaises
    \/ CombinedTypeError
    \/ CombinedMissing
    \/ CombinedRetryRaises
    \/ CombinedRetryTypeError
    \/ RunsCreate
    \/ RunsCreateTypeError
    \/ RunsCreateRaises
    \/ PollRun
    \/ PollRaises
    \/ CheckRun
    \/ ReadAnswer
    \/ ReadRaises
    \/ GuardCheck
    \/ AppendRewrite

\* ------------------------------------------------------------------------
\* Properties of the turn pipeline
\* ------------------------------------------------------------------------

\* The rewrite prompts appended to the conversation in this turn.
RewritePrompts == {i \in DOMAIN conv : conv[i].role = "user" /\ conv[i].kind = "rewrite"}

\* `answer` is unassigned ({}) until line 337 reads the answer of the first run.
AnswerRead == answer # {}

\* C5: the rewrite loop never performs more than MAX_REWRITE_ATTEMPTS rewrite
\* submissions in a turn: neither appended rewrite prompts nor rewrite runs
\* (calls of _create_and_poll_run at line 374), whatever the answers are.
C5_RewritesBounded ==
    /\ rewrite_attempts <= MAX_REWRITE_ATTEMPTS
    /\ Cardinality(RewritePrompts) <= MAX_REWRITE_ATTEMPTS
    /\ rewrite_runs <= MAX_REWRITE_ATTEMPTS

\* Witness of C5: the turn returned after using every allowed attempt, two of
\* them, and the answer it returns still fails the guardrails.
C5_Witness ==
    /\ tpc = "done"
    /\ outcome.kind = "returned"
    /\ MAX_REWRITE_ATTEMPTS = 2
    /\ rewrite_runs = 2
    /\ Cardinality(RewritePrompts) = 2
    /\ needs_rewrite(user_message, answer)

C7_NoTextIsFailure ==
    (tpc \in {"guard", "rw_append"} \/ outcome.kind = "returned")
        => answer # NoTextError

\* C8: a first run that ends in a terminal state other than completed makes
\* the turn raise a run-failure error carrying last_error's message when there
\* is one and the status otherwise; no answer is fetched, no rewrite attempted.
C8_FirstRunFailureRaises ==
    /\ (tpc = "done" /\ phase = "first" /\ run.status \in TerminalStatuses \ {"completed"})
          => /\ outcome.kind = "raised"
             /\ outcome.error = "Exception"
             /\ run.last_error # None => outcome.msg = run.last_error
             /\ run.last_error = None => outcome.msg = run.status
    /\ (phase = "first" /\ run.status \in TerminalStatuses \ {"completed"})
          => /\ tpc \in {"check_run", "done"}
             /\ lists = 0
             /\ ~AnswerRead
             /\ rewrite_attempts = 0
             /\ rewrite_runs = 0
             /\ RewritePrompts = {}

\* Witness of C8: the first run failed with a last_error and the turn raised
\* the run-failure error with its message.
C8_Witness ==
    /\ tpc = "done"
    /\ phase = "first"
    /\ run.status = "failed"
    /\ run.last_error = "server_error"
    /\ outcome = Raised("Exception", "server_error")

\* C9: the manual submit-and-poll path is entered only on incompatibility of
\* the combined call; a backend (transient or authentication) error raised by
\* a combined call propagates and never leads to a manual run submission.
C9_FallbackOnlyOnIncompatibility ==
    tpc = "poll" => swallowed \notin BackendErrors

\* C10: every run submitted during a turn carries the temperature selected
\* for the turn and the fixed system instruction string.
C10_RunsCarryTemperatureAndInstructions ==
    \A i \in DOMAIN submitted :
        /\ submitted[i].temperature = temperature
        /\ submitted[i].instructions = SYSTEM_INSTRUCTION

\* One step of the manual poll loop that goes round again.
PollContinues ==
    /\ tpc' = "poll"
    /\ run'.status \notin TerminalStatuses
    /\ ~TimedOut(elapsed')

\* The poll loop returns the run it observed in a terminal state.
PollReturnsTerminal ==
    /\ tpc' = "check_run"
    /\ outcome'.kind = "none"
    /\ run'.status \in TerminalStatuses
    /\ fetches' >= 1

\* The poll loop raises TimeoutError: the status observed is not terminal and
\* more than RUN_TIMEOUT_S seconds have passed since the submission.
PollTimesOut ==
    /\ tpc' = "done"
    /\ outcome'.kind = "raised"
    /\ outcome'.error = "TimeoutError"
    /\ run'.status \notin TerminalStatuses
    /\ elapsed' > RUN_TIMEOUT_S
    /\ fetches' >= 1

\* The status fetch itself raises a backend error, which leaves the loop.
PollFetchRaises ==
    /\ tpc' = "done"
    /\ outcome'.kind = "raised"
    /\ outcome'.error \in BackendErrors
    /\ fetches' >= 1

\* C11 as stated: the manual poll loop ends in exactly one of two ways, the
\* return of a run observed in a terminal status or a timeout error raised
\* after a non-terminal observation with more than the timeout elapsed; it
\* never returns a queued or in_progress run and fetches at least once.
C11_PollEndsInTwoWays ==
    [][tpc = "poll" => (PollContinues \/ PollReturnsTerminal \/ PollTimesOut)]_vars

\* C11, amended: the manual poll loop ends in exactly one of three ways: the
\* return of a run observed in a terminal status, a timeout error raised after
\* a non-terminal observation with more than the timeout elapsed, or a backend
\* error raised by the status fetch, which propagates; a run handed to the
\* caller is never queued or in_progress, and every way out follows at least
\* one status fetch.
C11_PollEndsInThreeWays ==
    /\ [](tpc = "check_run" => run.status \in TerminalStatuses)
    /\ [][tpc = "poll" =>
            \/ PollContinues
            \/ PollReturnsTerminal /\ ~PollTimesOut /\ ~PollFetchRaises
            \/ PollTimesOut /\ ~PollReturnsTerminal /\ ~PollFetchRaises
            \/ PollFetchRaises /\ ~PollReturnsTerminal /\ ~PollTimesOut]_vars

\* Witness of C11: the loop timed out on its third fetch, the run still not
\* terminal and more than the timeout elapsed.
C11_Witness ==
    /\ tpc = "done"
    /\ outcome.error = "TimeoutError"
    /\ run.status = "in_progress"
    /\ fetches = 3
    /\ elapsed > RUN_TIMEOUT_S

\* C12: every turn terminates: when each backend call returns and the clock
\* advances, get_assistant_response eventually returns an answer or raises.
C12_TurnTerminates == <>(tpc = "done" /\ outcome.kind \in {"returned", "raised"})

\* Witness of C12: a turn that used every allowed rewrite attempt, polled the
\* last rewrite run by hand and ended.
C12_Witness ==
    /\ tpc = "done"
    /\ MAX_REWRITE_ATTEMPTS = MaxRewriteConfig
    /\ rewrite_attempts = MAX_REWRITE_ATTEMPTS
    /\ phase = "rewrite"
    /\ fetches >= 2
    /\ outcome.kind \in {"returned", "raised"}

\* C13: no backend error is retried inside a turn: once a backend call has
\* raised an authentication or service error the turn ends with that error and
\* makes no further backend call (no message appended, no run submitted, no
\* status fetched, no messages listed).
C13_NoRetryAfterBackendError ==
    /\ [](swallowed \in BackendErrors
            => (tpc = "done" /\ outcome.kind = "raised" /\ outcome.error = swallowed))
    /\ [](outcome.error \in BackendErrors => tpc = "done")
    /\ [][(swallowed \in BackendErrors \/ outcome.error \in BackendErrors)
            => /\ conv' = conv
               /\ submitted' = submitted
               /\ fetches' = fetches
               /\ lists' = lists]_vars

\* The temperature the intent of the request calls for: the exploratory value
\* for CODE, the focused value for KNOWLEDGE, PRIVATE and CONTEXT.
TemperatureOfIntent ==
    LET intent == categorize_intent(user_message, product_hint, language_hint) IN
    CASE intent = "CODE" -> "0.4"
      [] intent \in {"KNOWLEDGE", "PRIVATE", "CONTEXT"} -> "0.2"

\* C23: the run temperature of a turn is the exploratory value iff the intent
\* is CODE and the focused value for KNOWLEDGE, PRIVATE and CONTEXT; it is
\* chosen once per turn and the same value is passed to the first run and to
\* every rewrite run of that turn (the argument of _create_and_poll_run at
\* lines 330 and 374).
C23_TemperatureOfTurn ==
    [][/\ temperature' # temperature
             => (temperature = None /\ temperature' = TemperatureOfIntent)
       /\ tpc' = "cap1"
             => /\ tpc \in {"append", "rw_append"}
                /\ temperature # None
                /\ run_kwargs'.temperature = temperature
       /\ Len(submitted') > Len(submitted)
             => submitted'[Len(submitted')].temperature \in {temperature, Absent}]_vars

\* Witness of C23: a CODE turn whose first run and rewrite run were both
\* submitted with the exploratory temperature.
C23_Witness ==
    /\ categorize_intent(user_message, product_hint, language_hint) = "CODE"
    /\ tpc = "done"
    /\ outcome.kind = "returned"
    /\ Len(submitted) = 2
    /\ submitted[1].phase = "first"
    /\ submitted[2].phase = "rewrite"
    /\ submitted[1].temperature = RUN_TEMPERATURE_CODE
    /\ submitted[2].temperature = RUN_TEMPERATURE_CODE

\* C25: when a rewrite run reaches a terminal state other than completed, the
\* rewrite loop stops at once, makes no further rewrite attempt even if
\* attempts remain, and the turn returns the answer it held before that
\* attempt, with no error raised.
C25_FailedRewriteReturnsPriorAnswer ==
    [][/\ (tpc = "check_run" /\ phase = "rewrite" /\ run.status # "completed")
             => /\ tpc' = "done"
                /\ outcome' = Returned
                /\ answer' = answer
                /\ rewrite_attempts' = rewrite_attempts
                /\ rewrite_runs' = rewrite_runs
                /\ conv' = conv
                /\ submitted' = submitted
                /\ lists' = lists
       /\ tpc # "read" => answer' = answer]_vars

\* Witness of C25: a rewrite run expired with an attempt left, and the turn
\* returned the answer of the first run.
C25_Witness ==
    /\ tpc = "done"
    /\ phase = "rewrite"
    /\ run.status = "expired"
    /\ outcome = Returned
    /\ rewrite_attempts = 1
    /\ MAX_REWRITE_ATTEMPTS = 2
    /\ lists = 1
    /\ answer = ExtraAnswer

\* The user messages appended to the conversation.
UserAppends == {i \in DOMAIN conv : conv[i].role = "user"}

\* C27: within a turn the backend calls are ordered: the wrapped user message
\* is appended before the first run is submitted, each rewrite prompt is
\* appended to the same conversation before its rewrite run is submitted,
\* messages are listed only after a run was observed completed, and the number
\* of appended user messages equals 1 plus the number of rewrite attempts
\* (while the prompt of an attempt that was just counted is being appended,
\* that prompt is the one still to come).
C27_BackendCallOrder ==
    /\ [][/\ Len(submitted') > Len(submitted)
                => /\ UserAppends # {}
                   /\ conv[CHOOSE i \in UserAppends : \A j \in UserAppends : j <= i].kind
                         = (IF phase = "first" THEN "wrapped" ELSE "rewrite")
                   /\ Cardinality(RewritePrompts) = rewrite_runs
                   /\ phase = "first" <=> rewrite_runs = 0
          /\ lists' > lists
                => /\ run.status = "completed"
                   /\ lists' = lists + 1
                   /\ lists = rewrite_runs
          /\ Len(conv') >= Len(conv)
          /\ SubSeq(conv', 1, Len(conv)) = conv]_vars
    /\ [](submitted # <<>> =>
            \E i \in UserAppends : conv[i].kind = "wrapped" /\ \A j \in UserAppends : i <= j)
    /\ [](tpc \in {"start", "append"} => UserAppends = {})
    /\ [](UserAppends # {} => Cardinality(UserAppends) = 1 + rewrite_runs)
    /\ [](tpc = "rw_append" => Cardinality(UserAppends) + 1 = 1 + rewrite_attempts)
    /\ []((tpc \notin {"start", "append", "rw_append", "done"}
             \/ (tpc = "done" /\ outcome.kind = "returned"))
            => Cardinality(UserAppends) = 1 + rewrite_attempts)

\* Witness of C27: a turn returned after two rewrites; three user messages
\* were appended and the messages were listed three times.
C27_Witness ==
    /\ tpc = "done"
    /\ outcome.kind = "returned"
    /\ rewrite_attempts = 2
    /\ Cardinality(UserAppends) = 3
    /\ lists = 3
    /\ Len(submitted) >= 3

\* The products the scope line of the wrapped message of the turn lists.
ScopeLineProducts ==
    LET wrapped == {i \in DOMAIN conv : conv[i].role = "user" /\ conv[i].kind = "wrapped"}
    IN  detect_products(
            UNION {sec.text : sec \in
                      UNION {SectionsOf(conv[i].content, "scope") : i \in wrapped}})

\* C31: the product set the scope guardrail enforces on the answer is the same
\* set the wrapped message announced in its scope line for that turn (detected
\* products plus the product hint): an answer that names only products listed
\* in the scope line is never flagged by the scope check and never triggers a
\* rewrite that tells the backend to remove a hinted product.
C31_GuardrailEnforcesScopeLine ==
    [][/\ (tpc = "guard" /\ detect_products(answer) \subseteq ScopeLineProducts)
             => _enforce_product_scope(user_message, answer)
       /\ (RewritePrompts' # RewritePrompts
              /\ detect_products(answer) \subseteq ScopeLineProducts)
             => SectionsOf(conv'[Len(conv')].content, "remove") = {}]_vars

\* C32: with turns of one conversation serialized by the caller, the answer a
\* turn returns is an assistant message produced after that turn's own user
\* message was appended; a turn never returns an assistant message left in the
\* conversation by an earlier turn, including when its completed run produced
\* no new assistant message.
C32_AnswerIsOfThisTurn ==
    (tpc = "done" /\ outcome.kind = "returned")
        => \E i \in DOMAIN conv :
              /\ conv[i].role = "assistant"
              /\ conv[i].has_text
              /\ conv[i].text = answer
              /\ \E j \in UserAppends : conv[j].kind = "wrapped" /\ j < i

\* C33: with turns of one conversation serialized by the caller (a new turn
\* starts only after the previous one returned or raised), at most one
\* non-terminal run exists per conversation at any time: the pipeline never
\* submits a run to a conversation while an earlier run it submitted there is
\* still queued or in_progress, including after a strategy fallback and after a
\* poll timeout.
C33_OneRunInFlight ==
    /\ [](in_flight <= 1)
    /\ [][Len(submitted') > Len(submitted) => in_flight = 0]_vars

\* C29: each corrective rewrite instruction always names the mandatory
\* structure headings and the no-guessing directive, includes the
\* allowed-product line iff the product set detected in the question is
\* non-empty, and includes the remove-references line iff the extra set
\* (answer products minus question products) is non-empty, listing exactly
\* that extra set computed from the current working answer.
C29_RewriteInstruction ==
    [][RewritePrompts' # RewritePrompts =>
          LET p == conv'[Len(conv')].content
              Q == detect_products(user_message)
              A == detect_products(answer)
          IN  /\ conv'[Len(conv')].kind = "rewrite"
              /\ answer = _get_latest_assistant_text(conv)
              /\ \E sec \in SectionsOf(p, "structure") :
                    {sec.items[k].label : k \in DOMAIN sec.items} = MandatedHeadings
              /\ SectionsOf(p, "no_guess") # {}
              /\ (SectionsOf(p, "only") # {}) <=> (Q # {})
              /\ \A sec \in SectionsOf(p, "only") : sec.text = Q
              /\ (SectionsOf(p, "remove") # {}) <=> (A \ Q # {})
              /\ \A sec \in SectionsOf(p, "remove") : sec.text = A \ Q
              /\ \A k \in DOMAIN p :
                    p[k].kind \in {"structure", "no_guess", "only", "remove"}]_vars

\* Witness of C29: a rewrite prompt that allows the product of the question
\* and asks to remove the other product the answer named.
C29_Witness ==
    \E i \in RewritePrompts :
        /\ SectionsOf(conv[i].content, "only")
              = {Section("only", {"MetaDefender Kiosk"}, <<>>)}
        /\ SectionsOf(conv[i].content, "remove")
              = {Section("remove", {"MetaDefender Core"}, <<>>)}

\* An enabled guardrail check fails on the working answer.
EnabledCheckFails ==
    \/ ENABLE_FORMAT_GUARDRAIL /\ ~_has_required_markdown_structure(answer)
    \/ ENABLE_PRODUCT_SCOPE_GUARDRAIL /\ ~_enforce_product_scope(user_message, answer)

\* C26: a rewrite is submitted only when at least one enabled guardrail check
\* fails on the current working answer and attempts < max_attempts; a
\* disabled check never triggers a rewrite (with both disabled or
\* max_attempts = 0 no rewrite is ever submitted); hence every answer returned
\* by a turn either passes all enabled checks, or max_attempts rewrites were
\* submitted, or a rewrite run did not complete.
C26_RewriteOnlyOnEnabledFailure ==
    /\ [][/\ rewrite_attempts' # rewrite_attempts
                => /\ rewrite_attempts < MAX_REWRITE_ATTEMPTS
                   /\ EnabledCheckFails
          /\ (rewrite_runs' # rewrite_runs \/ RewritePrompts' # RewritePrompts)
                => /\ rewrite_attempts - 1 < MAX_REWRITE_ATTEMPTS
                   /\ EnabledCheckFails]_vars
    /\ []((MAX_REWRITE_ATTEMPTS = 0
             \/ (~ENABLE_FORMAT_GUARDRAIL /\ ~ENABLE_PRODUCT_SCOPE_GUARDRAIL))
            => (rewrite_attempts = 0 /\ rewrite_runs = 0 /\ RewritePrompts = {}))
    /\ []((tpc = "done" /\ outcome.kind = "returned")
            => \/ ~EnabledCheckFails
               \/ rewrite_runs = MAX_REWRITE_ATTEMPTS
               \/ (phase = "rewrite" /\ run.status # "completed"))

\* Witness of C26: with the format check disabled, the one rewrite that the
\* scope check triggered produced an answer without the headings that names
\* only the product of the question; it is returned with an attempt left.
C26_Witness ==
    /\ tpc = "done"
    /\ outcome.kind = "returned"
    /\ ~ENABLE_FORMAT_GUARDRAIL
    /\ ENABLE_PRODUCT_SCOPE_GUARDRAIL
    /\ MAX_REWRITE_ATTEMPTS = 2
    /\ detect_products(user_message) # {}
    /\ answer = BareAnswer
    /\ rewrite_runs = 1
    /\ rewrite_attempts = 1

\* ------------------------------------------------------------------------
\* Calls of the text functions
\* ------------------------------------------------------------------------

\* The calls made: one function on arguments drawn from the value sets.
TextInit ==
    /\ t_pc = "ready"
    /\ t_result = NoResult
    /\ t_args \in
        {Args("categorize_intent", m, ph, lh, None, {}) :
            m \in Messages, ph \in {None, "Kiosk"}, lh \in LanguageHints}
        \cup {Args("_enforce_product_scope", m, None, None, None, a) :
            m \in Texts(MessagePhrases \ {" "}), a \in Answers}
        \cup {Args("_has_required_markdown_structure", {}, None, None, None, a) :
            a \in Answers}
        \cup {Args("build_wrapped_user_message", m, ph, lh, th, {}) :
            m \in Messages, ph \in ProductHints, lh \in LanguageHints, th \in TaskHints}

\* categorize_intent(user_message, product_hint=..., language_hint=...)
CallCategorizeIntent ==
    /\ t_pc = "ready"
    /\ t_args.fn = "categorize_intent"
    /\ t_result' =
          [ret |-> categorize_intent(t_args.user_message, t_args.product_hint,
                                     t_args.language_hint),
           extras |-> {}]
    /\ t_pc' = "returned"
    /\ UNCHANGED <<t_args, storeVars, turnVars, retryVars>>

\* Lines 347 and 354-356: the scope verdict on (question, answer) and the
\* extra products diagnosed for the rewrite prompt.
CallEnforceProductScope ==
    /\ t_pc = "ready"
    /\ t_args.fn = "_enforce_product_scope"
    /\ t_result' =
          [ret |-> _enforce_product_scope(t_args.user_message, t_args.answer),
           extras |-> extras(t_args.user_message, t_args.answer)]
    /\ t_pc' = "returned"
    /\ UNCHANGED <<t_args, storeVars, turnVars, retryVars>>

\* _has_required_markdown_structure(answer)
CallHasRequiredMarkdownStructure ==
    /\ t_pc = "ready"
    /\ t_args.fn = "_has_required_markdown_structure"
    /\ t_result' = [ret |-> _has_required_markdown_structure(t_args.answer), extras |-> {}]
    /\ t_pc' = "returned"
    /\ UNCHANGED <<t_args, storeVars, turnVars, retryVars>>

\* build_wrapped_user_message(user_message, product_hint=..., language_hint=...,
\* task_hint=...)
CallBuildWrappedUserMessage ==
    /\ t_pc = "ready"
    /\ t_args.fn = "build_wrapped_user_message"
    /\ t_result' =
          [ret |-> build_wrapped_user_message(t_args.user_message, t_args.product_hint,
                                              t_args.language_hint, t_args.task_hint),
           extras |-> {}]
    /\ t_pc' = "returned"
    /\ UNCHANGED <<t_args, storeVars, turnVars, retryVars>>

TextNext ==
    \/ CallCategorizeIntent
    \/ CallEnforceProductScope
    \/ CallHasRequiredMarkdownStructure
    \/ CallBuildWrappedUserMessage

\* ------------------------------------------------------------------------
\* Properties of the text functions
\* ------------------------------------------------------------------------

\* The call of `fn` has returned.
Called(fn) == t_pc = "returned" /\ t_args.fn = fn

\* The text holds one of the phrases of the table, in any letter case.
HoldsAny(text, hints) == \E h \in hints, p \in text : h \in InPhrase(Lower(p))

\* C14: a message that contains any private/security-bypass phrase is
\* classified PRIVATE, whatever context phrases, code keywords, product hint
\* or language hint come with it.
C14_PrivateFirst ==
    (Called("categorize_intent") /\ HoldsAny(t_args.user_message, _PRIVATE_HINTS))
        => t_result.ret = "PRIVATE"

\* Witness of C14: a private phrase next to a context phrase and a code
\* keyword, with a product hint and a language hint, classified PRIVATE.
C14_Witness ==
    /\ Called("categorize_intent")
    /\ t_args.user_message = {"bypass", "as we discussed", "snippet"}
    /\ t_args.product_hint = "Kiosk"
    /\ t_args.language_hint = "Python"
    /\ t_result.ret = "PRIVATE"

\* C15 as stated: every message with a non-empty language hint is classified
\* CODE, even when it holds no code keyword.
C15_LanguageHintIsCode ==
    (Called("categorize_intent") /\ t_args.language_hint \notin {None, ""})
        => t_result.ret = "CODE"

\* C15, amended: a message that holds no private phrase and no context phrase
\* and comes with a language hint that is not empty once stripped of blanks is
\* classified CODE, even when it holds no code keyword; a private or a context
\* phrase takes precedence over the hint, and a hint of blanks only counts as
\* no hint.
C15_LanguageHintIsCodeUnlessPrivateOrContext ==
    Called("categorize_intent") =>
        LET m == t_args.user_message
            lh == t_args.language_hint
            hinted == lh \notin {None, "", " "}
        IN  /\ (hinted /\ ~HoldsAny(m, _PRIVATE_HINTS) /\ ~HoldsAny(m, _CONTEXT_HINTS))
                  => t_result.ret = "CODE"
            /\ (hinted /\ HoldsAny(m, _PRIVATE_HINTS)) => t_result.ret = "PRIVATE"
            /\ (hinted /\ ~HoldsAny(m, _PRIVATE_HINTS) /\ HoldsAny(m, _CONTEXT_HINTS))
                  => t_result.ret = "CONTEXT"
            /\ (lh = " " /\ ~HoldsAny(m, _CODE_HINTS)) => t_result.ret # "CODE"

\* Witness of C15: a message without code keyword, private or context phrase,
\* classified CODE on the language hint alone.
C15_Witness ==
    /\ Called("categorize_intent")
    /\ t_args.user_message = {"how do i install it"}
    /\ t_args.language_hint = "Python"
    /\ t_result.ret = "CODE"

\* C16: with Q the products detected in the question and A those detected in
\* the answer, the scope check passes iff Q is empty or A is a subset of Q
\* (every answer passes when Q is empty, an answer naming no product passes),
\* and the extra set diagnosed for the rewrite prompt is exactly A minus Q.
C16_ScopeCheck ==
    Called("_enforce_product_scope") =>
        LET Q == detect_products(t_args.user_message)
            A == detect_products(t_args.answer)
        IN  /\ t_result.ret \in BOOLEAN
            /\ t_result.ret <=> (Q = {} \/ A \subseteq Q)
            /\ Q = {} => t_result.ret
            /\ A = {} => t_result.ret
            /\ ~t_result.ret => (t_result.extras = A \ Q /\ t_result.extras # {})

\* Witness of C16: Q = {Kiosk}, A = {Kiosk, Core} fails with extras {Core}.
C16_Witness ==
    /\ Called("_enforce_product_scope")
    /\ detect_products(t_args.user_message) = {"MetaDefender Kiosk"}
    /\ detect_products(t_args.answer) = {"MetaDefender Kiosk", "MetaDefender Core"}
    /\ t_result.ret = FALSE
    /\ t_result.extras = {"MetaDefender Core"}

\* C17: the structure check passes iff all four mandated section headings
\* (## Answer, ## Steps / Example, ## Notes (optional), ## Sources) appear
\* verbatim in the answer text, in any order.
C17_StructureNeedsFourHeadings ==
    Called("_has_required_markdown_structure") =>
        (t_result.ret <=> (\A h \in MandatedHeadings : ContainsRaw(t_args.answer, h)))

\* The sections whose trigger holds, in the mandated order.
TriggeredSections(a) ==
    (IF detect_products(a.user_message) # {} \/ Truthy(a.product_hint)
     THEN <<"scope">> ELSE <<>>)
    \o (IF needs_exact_fact(a.user_message) THEN <<"exact">> ELSE <<>>)
    \o (IF categorize_intent(a.user_message, a.product_hint, a.language_hint) = "CODE"
        THEN <<"code">> ELSE <<>>)
    \o <<"format", "question">>

\* C20: the wrapped message holds only the sections whose trigger holds, in
\* the order scope line, exact-fact line, code-assistance line,
\* output-structure directive, question; the directive and the question are
\* always there, the question is the last section and carries the original
\* question text unmodified, and no section is empty.
C20_WrapperSections ==
    Called("build_wrapped_user_message") =>
        LET w == t_result.ret IN
        /\ [k \in DOMAIN w |-> w[k].kind] = TriggeredSections(t_args)
        /\ w[Len(w)].kind = "question"
        /\ w[Len(w)].text = t_args.user_message
        /\ \A k \in DOMAIN w : w[k] # NoSection

\* C21: the scope line of the wrapped message is present iff the union of the
\* product names detected in the message and the product hint is non-empty,
\* and it lists exactly that union: a hint adds to the detected set and never
\* replaces or removes a detected product, and no empty product name is
\* listed.
C21_ScopeLineIsUnion ==
    Called("build_wrapped_user_message") =>
        LET w == t_result.ret
            detected == detect_products(t_args.user_message)
            hinted == IF t_args.product_hint \in {None, ""}
                      THEN {} ELSE {Strip(t_args.product_hint)}
            scope == SectionsOf(w, "scope")
        IN  /\ (scope # {}) <=> (detected \cup hinted # {})
            /\ \A sec \in scope :
                  /\ sec.text = detected \cup hinted
                  /\ detected \subseteq sec.text
                  /\ "" \notin sec.text

\* C22: the code-assistance block is in the wrapped message iff the intent is
\* CODE: a PRIVATE or CONTEXT message never gets it even when product,
\* language and task hints are supplied, and a CODE message with no hints
\* supplied gets the block with the placeholder line
\* '(no extra hints provided)' in place of hints.
C22_CodeBlockIffCode ==
    Called("build_wrapped_user_message") =>
        LET w == t_result.ret
            m == t_args.user_message
            code == SectionsOf(w, "code")
            supplied == {h \in {t_args.product_hint, t_args.language_hint,
                                t_args.task_hint} : h \notin {None, ""}}
            placeholder == <<Item("(no extra hints provided)", None)>>
        IN  /\ (code # {}) <=>
                  (categorize_intent(m, t_args.product_hint, t_args.language_hint)
                      = "CODE")
            /\ (HoldsAny(m, _PRIVATE_HINTS) \/ HoldsAny(m, _CONTEXT_HINTS))
                  => code = {}
            /\ \A sec \in code :
                  /\ (supplied = {}) <=> (sec.items = placeholder)
                  /\ supplied # {} =>
                        /\ {sec.items[k].value : k \in DOMAIN sec.items} = supplied
                        /\ \A k \in DOMAIN sec.items :
                              sec.items[k].label \in {"Product", "Language", "Task"}

\* Witness of C22: a code question without any hint gets the block with the
\* placeholder line.
C22_Witness ==
    /\ Called("build_wrapped_user_message")
    /\ t_args.user_message = {"snippet"}
    /\ t_args.product_hint = None
    /\ t_args.language_hint = None
    /\ t_args.task_hint = None
    /\ SectionsOf(t_result.ret, "code")
          = {Section("code", {}, <<Item("(no extra hints provided)", None)>>)}

\* C24: categorize_intent is a total, deterministic first-match classifier
\* returning exactly one of PRIVATE, CONTEXT, CODE, KNOWLEDGE: CONTEXT iff no
\* private phrase and a context phrase is present (even with a language hint
\* or code keywords); CODE iff neither of those and (the language hint is
\* non-blank or a code keyword is present); KNOWLEDGE otherwise; the product
\* hint never changes the result.
C24_FirstMatchClassifier ==
    Called("categorize_intent") =>
        LET m == t_args.user_message
            private == HoldsAny(m, _PRIVATE_HINTS)
            context == HoldsAny(m, _CONTEXT_HINTS)
            coded == \/ t_args.language_hint \notin {None, "", " "}
                     \/ HoldsAny(m, _CODE_HINTS)
            r == t_result.ret
        IN  /\ r \in {"PRIVATE", "CONTEXT", "CODE", "KNOWLEDGE"}
            /\ (r = "PRIVATE") <=> private
            /\ (r = "CONTEXT") <=> (~private /\ context)
            /\ (r = "CODE") <=> (~private /\ ~context /\ coded)
            /\ (r = "KNOWLEDGE") <=> (~private /\ ~context /\ ~coded)
            /\ \A ph \in ProductHints :
                  categorize_intent(m, ph, t_args.language_hint) = r

\* Witness of C24: a context phrase next to a code keyword, with a language
\* hint and a product hint, classified CONTEXT.
C24_Witness ==
    /\ Called("categorize_intent")
    /\ t_args.user_message = {"as we discussed", "snippet"}
    /\ t_args.product_hint = "Kiosk"
    /\ t_args.language_hint = "Python"
    /\ t_result.ret = "CONTEXT"

\* ------------------------------------------------------------------------
\* retry_with_backoff (auto_evaluator.py)
\* ------------------------------------------------------------------------

\* retry_with_backoff(func, retries, initial_delay) is entered; line 52.
RetryInit ==
    /\ r_pc = "loop"
    /\ retries \in 0..MaxRetries
    /\ initial_delay \in {1, 2}
    /\ r_i = 0
    /\ delay = initial_delay
    /\ r_calls = <<>>
    /\ r_slept = <<>>
    /\ r_outcome = NoRetryOutcome

\* `getattr(e, 'status_code', 0)`
status_code(e) ==
    CASE e \in RateLimitErrors -> 429
      [] e = "APIError_500" -> 500
      [] e = "APIError_503" -> 503
      [] OTHER -> 0

\* Line 58: is_rate_limit.
is_rate_limit(e) == e = "RateLimitError" \/ status_code(e) = 429

\* Mutant: the last attempt is never recognised.
IsLastAttempt_never(k, n) == FALSE

\* Line 57: `i == retries - 1`.
IsLastAttempt(k, n) == k = n - 1

\* Line 60: `sleep_time = delay + random.uniform(0, 1)`, in tenths of a
\* second.
sleep_time(d, jitter) == d * 10 + jitter

\* Mutant: the delay grows by one second.
NextDelay_linear(d) == d + 1

\* Line 63: `delay *= 2`.
NextDelay(d) == d * 2

RetryReturned(value) == [kind |-> "returned", value |-> value]
RetryRaised(e) == [kind |-> "raised", value |-> e]

\* Line 53: `for i in range(retries)`; line 66 when the range is used up.
RetryLoop ==
    /\ r_pc = "loop"
    /\ IF r_i < retries
       THEN /\ r_pc' = "call"
            /\ r_outcome' = r_outcome
       ELSE /\ r_pc' = "done"
            /\ r_outcome' = RetryReturned(None)
    /\ UNCHANGED <<retries, initial_delay, r_i, delay, r_calls, r_slept>>
    /\ UNCHANGED <<storeVars, turnVars, textVars>>

\* Line 55: func() returns and its result is returned.
FuncReturns ==
    /\ r_pc = "call"
    /\ r_calls' = Append(r_calls, "ok")
    /\ r_outcome' = RetryReturned("result")
    /\ r_pc' = "done"
    /\ UNCHANGED <<retries, initial_delay, r_i, delay, r_slept>>
    /\ UNCHANGED <<storeVars, turnVars, textVars>>

\* Lines 55-65: func() raises.  An error that is no APIError is not caught; on
\* the last attempt the error is raised again; a rate-limit error is slept on
\* and the delay doubled; any other APIError is raised again.
FuncRaises ==
    /\ r_pc = "call"
    /\ \E e \in FuncErrors :
        /\ r_calls' = Append(r_calls, e)
        /\ IF e \in ApiErrors /\ ~IsLastAttempt(r_i, retries) /\ is_rate_limit(e)
           THEN /\ \E jitter \in Jitter :
                    r_slept' = Append(r_slept, sleep_time(delay, jitter))
                /\ delay' = NextDelay(delay)
                /\ r_i' = r_i + 1
                /\ r_pc' = "loop"
                /\ r_outcome' = r_outcome
           ELSE /\ r_outcome' = RetryRaised(e)
                /\ r_pc' = "done"
                /\ UNCHANGED <<r_slept, delay, r_i>>
    /\ UNCHANGED <<retries, initial_delay>>
    /\ UNCHANGED <<storeVars, turnVars, textVars>>

RetryNext ==
    \/ RetryLoop
    \/ FuncReturns
    \/ FuncRaises

\* ------------------------------------------------------------------------
\* Properties of retry_with_backoff
\* ------------------------------------------------------------------------

\* C18: a transient backend error of the 5xx class raised by the wrapped call
\* is retried like a rate-limit error: it does not propagate on its first
\* occurrence, only once the allowed calls are used up.
C18_TransientErrorsRetried ==
    (r_pc = "done" /\ r_outcome.kind = "raised" /\ r_outcome.value \in ServiceErrors5xx)
        => Len(r_calls) = retries

\* C19: retry_with_backoff calls func at most `retries` times; it returns the
\* result of the first call that succeeds and calls func no more; when the last
\* allowed call also raises a rate-limit error, that error propagates: it is
\* not swallowed and None is not returned.
C19_BoundedCallsAndPropagation ==
    /\ Len(r_calls) <= retries
    /\ \A k \in DOMAIN r_calls :
          r_calls[k] = "ok"
              => (k = Len(r_calls) /\ r_pc = "done" /\ r_outcome = RetryReturned("result"))
    /\ r_outcome = RetryReturned("result")
          => (r_calls # <<>> /\ r_calls[Len(r_calls)] = "ok")
    /\ (retries > 0 /\ Len(r_calls) = retries /\ r_calls[retries] \in RateLimitErrors)
          => (r_pc = "done" /\ r_outcome = RetryRaised(r_calls[retries]))

\* Witness of C19: every one of three allowed calls raised a rate-limit error;
\* two sleeps were made and the last error was raised.
C19_Witness ==
    /\ r_pc = "done"
    /\ retries = 3
    /\ r_calls = <<"RateLimitError", "APIError_429", "RateLimitError">>
    /\ Len(r_slept) = 2
    /\ r_outcome = RetryRaised("RateLimitError")

RECURSIVE Pow2(_)
Pow2(n) == IF n = 0 THEN 1 ELSE 2 * Pow2(n - 1)

\* The calls that raised a rate-limit error with an attempt left.
RateLimitedRetries ==
    {k \in DOMAIN r_calls : r_calls[k] \in RateLimitErrors /\ k < retries}

\* C28: the exponential backoff of retry_with_backoff doubles on each
\* rate-limited attempt: the wait before the k-th retry (k >= 1) is
\* initial_delay * 2^(k-1) plus a jitter in [0, 1), no wait happens after the
\* last allowed attempt, and the delay is not advanced by an error that is not
\* a rate limit.  Times are in tenths of a second.
C28_ExponentialBackoff ==
    /\ \A k \in DOMAIN r_slept :
          /\ r_slept[k] >= initial_delay * Pow2(k - 1) * 10
          /\ r_slept[k] < (initial_delay * Pow2(k - 1) + 1) * 10
    /\ Len(r_slept) = Cardinality(RateLimitedRetries)
    /\ Len(r_slept) < retries \/ (retries = 0 /\ r_slept = <<>>)
    /\ (retries > 0 /\ Len(r_calls) = retries) => Len(r_slept) = retries - 1
    /\ delay = initial_delay * Pow2(Cardinality(RateLimitedRetries))

\* Witness of C28: two rate-limited attempts waited 2 s and 4 s plus jitter
\* before the third, last allowed attempt, after which nothing was slept.
C28_Witness ==
    /\ r_pc = "done"
    /\ retries = 3
    /\ initial_delay = 2
    /\ Len(r_calls) = 3
    /\ r_calls[3] = "APIError_429"
    /\ r_slept = <<25, 49>>
    /\ delay = 8

\* ------------------------------------------------------------------------
\* Specifications
\* ------------------------------------------------------------------------

\* The turn variables while only the thread store is exercised.
TurnParked ==
    /\ MAX_REWRITE_ATTEMPTS = 1
    /\ ENABLE_FORMAT_GUARDRAIL = TRUE
    /\ ENABLE_PRODUCT_SCOPE_GUARDRAIL = TRUE
    /\ sdk = [helper |-> "ok", create |-> "ok"]
    /\ user_message = {}
    /\ product_hint = None
    /\ language_hint = None
    /\ tpc = "parked"
    /\ phase = "first"
    /\ temperature = None
    /\ run_kwargs = NoKwargs
    /\ run = NoRun
    /\ elapsed = 0
    /\ conv = <<>>
    /\ answer = {}
    /\ rewrite_attempts = 0
    /\ outcome = NoOutcome
    /\ submitted = <<>>
    /\ rewrite_runs = 0
    /\ lists = 0
    /\ swallowed = None
    /\ fetches = 0
    /\ in_flight = 0

\* No call of the text functions in progress.
TextParked ==
    /\ t_pc = "parked"
    /\ t_args = NoArgs
    /\ t_result = NoResult

\* retry_with_backoff not running.
RetryParked ==
    /\ r_pc = "parked"
    /\ retries = 0
    /\ initial_delay = 1
    /\ r_i = 0
    /\ delay = 1
    /\ r_calls = <<>>
    /\ r_slept = <<>>
    /\ r_outcome = NoRetryOutcome

\* Request handlers running concurrently on the shared thread store.
StoreNext == \E w \in Workers : WorkerStep(w)

\* The store as constructed, no turn in progress.
InitStore == StoreInit /\ TurnParked /\ TextParked /\ RetryParked

SpecStore == InitStore /\ [][StoreNext]_vars

\* The same handlers with the requests served one at a time.
OthersIdle(w) == \A v \in Workers \ {w} : wpc[v] = "idle"

StoreNextSeq ==
    \E w \in Workers :
        \/ OthersIdle(w) /\ ChatStart(w)
        \/ GetOrCreateCheck(w)
        \/ ThreadsCreate(w)
        \/ ThreadsCreateFails(w)
        \/ GetOrCreateStore(w)
        \/ ChatRespond(w)
        \/ OthersIdle(w) /\ DeleteThread(w)

SpecStoreSeq == InitStore /\ [][StoreNextSeq]_vars

\* One turn of get_assistant_response.
InitTurn == StoreInit /\ TurnInit /\ TextParked /\ RetryParked

SpecTurn == InitTurn /\ [][TurnNext]_vars

\* One turn, on a new conversation, with the scope guardrail enabled and a
\* question that names a product (both guardrails can fail), in which every
\* backend call returns and the clock advances: a step that is possible is
\* eventually taken.
InitTurnFair ==
    /\ InitTurn
    /\ conv = <<>>
    /\ user_message = {"bypass", "Kiosk"}
    /\ ENABLE_PRODUCT_SCOPE_GUARDRAIL

SpecTurnFair == InitTurnFair /\ [][TurnNext]_vars /\ WF_vars(TurnNext)

\* Turns of one request per intent, on a new conversation with both
\* guardrails enabled.
InitTurnIntents ==
    /\ StoreInit
    /\ TurnInitFor(IntentRequests)
    /\ conv = <<>>
    /\ ENABLE_FORMAT_GUARDRAIL
    /\ ENABLE_PRODUCT_SCOPE_GUARDRAIL
    /\ TextParked
    /\ RetryParked

SpecTurnIntents == InitTurnIntents /\ [][TurnNext]_vars

\* One call of a text function on each of the arguments.
InitText == StoreInit /\ TurnParked /\ TextInit /\ RetryParked

SpecText == InitText /\ [][TextNext]_vars

\* One call of retry_with_backoff.
InitRetry == StoreInit /\ TurnParked /\ TextParked /\ RetryInit

SpecRetry == InitRetry /\ [][RetryNext]_vars

====
